---- MODULE Spec2Model ----
(***************************************************************************)
(* A model of fundingscape's cross-source deduplication (dedup.py): the    *)
(* grant_award and funder tables, and run_dedup with each of its phases as *)
(* one step of the orchestrator.                                           *)
(*                                                                         *)
(* Conventions.  A nullable SQL column holds a sequence of length at most  *)
(* one: <<>> is NULL and <<v>> is the value v.  A comparison with NULL is  *)
(* unknown, which a WHERE clause treats as false (Eq, Ne, Gt below).       *)
(* Text that a LIKE pattern reads (source_id, funder short names) is a     *)
(* sequence of one-character strings; other text is a string.  A DATE is   *)
(* the integer yyyymmdd, so that date order is integer order.              *)
(***************************************************************************)
EXTENDS Integers, Sequences, FiniteSets, TLC

VARIABLES grant, funder, pc, stats, runs, before, history, seq_grant

vars == <<grant, funder, pc, stats, runs, before, history, seq_grant>>

----------------------------------------------------------------------------
(* SQL values *)

Null == <<>>

Some(v) == <<v>>

IsNull(x) == x = <<>>

NotNull(x) == x # <<>>

\* a = b in a WHERE clause: true only when both sides are non-NULL and equal
Eq(a, b) == NotNull(a) /\ NotNull(b) /\ a[1] = b[1]

\* a != b in a WHERE clause
Ne(a, b) == NotNull(a) /\ NotNull(b) /\ a[1] # b[1]

\* a > b in a WHERE clause
Gt(a, b) == NotNull(a) /\ NotNull(b) /\ a[1] > b[1]

\* COALESCE(a, b)
Coalesce(a, b) == IF NotNull(a) THEN a ELSE b

\* YEAR(d) of a DATE yyyymmdd
Year(d) == d \div 10000

\* s LIKE p ESCAPE esc over character sequences: % matches any run of
\* characters, _ matches any one character, and the character after esc is
\* matched literally.  esc = "" stands for a LIKE without an ESCAPE clause.
RECURSIVE Like(_, _, _)
Like(s, p, esc) ==
    IF p = <<>> THEN s = <<>>
    ELSE IF esc # "" /\ Head(p) = esc /\ Len(p) >= 2
         THEN /\ s # <<>>
              /\ Head(s) = p[2]
              /\ Like(Tail(s), SubSeq(p, 3, Len(p)), esc)
    ELSE IF Head(p) = "%"
         THEN Like(s, Tail(p), esc) \/ (s # <<>> /\ Like(Tail(s), p, esc))
    ELSE IF Head(p) = "_"
         THEN s # <<>> /\ Like(Tail(s), Tail(p), esc)
    ELSE s # <<>> /\ Head(s) = Head(p) /\ Like(Tail(s), Tail(p), esc)

NoEscape == ""

Backslash == "\\"

\* MIN(id) over a set of ids; NULL over the empty set
MinId(S) == IF S = {} THEN Null ELSE Some(CHOOSE m \in S : \A x \in S : m <= x)

\* the functions that pick, for every i in the domain of C, a member of C[i]
RECURSIVE ChoicesOver(_, _)
ChoicesOver(C, D) ==
    IF D = {} THEN {[x \in {} |-> x]}
    ELSE LET d == CHOOSE x \in D : TRUE
         IN  {f @@ (d :> v) : f \in ChoicesOver(C, D \ {d}), v \in C[d]}

Choices(C) == ChoicesOver(C, DOMAIN C)

----------------------------------------------------------------------------
(* Program constants *)

\* the sentinel start date '1900-01-01'
SENTINEL_START == 19000101

\* the sentinel end date '9999-12-31'
SENTINEL_END == 99991231

\* dates whose year is below MIN_YEAR are implausible
MIN_YEAR == 1950

\* end dates whose year is above MAX_YEAR are implausible
MAX_YEAR == 2040

\* _COUNTRY_CODE_MAP, in the order the dict is iterated
COUNTRY_CODE_MAP == << <<"UK", "GB">>, <<"EL", "GR">> >>

\* _CURRENCY_CODE_MAP
CURRENCY_CODE_MAP == << <<"$", "AUD">> >>

\* the short names _seed_funders inserts, in order (EC gets id 1)
SEED_FUNDERS ==
    <<<<"E", "C">>,
      <<"E", "R", "C">>,
      <<"D", "F", "G">>,
      <<"B", "M", "B", "F">>,
      <<"V", "W", "S">>,
      <<"A", "v", "H">>,
      <<"A", "F", "O", "S", "R">>,
      <<"O", "N", "R">>,
      <<"A", "R", "L">>,
      <<"N", "A", "T", "O", " ", "S", "P", "S">>,
      <<"C", "Z", "S">>,
      <<"T", "h", "y", "s", "s", "e", "n">>,
      <<"D", "A", "A", "D">>,
      <<"M", "W", "K", "-", "N", "D", "S">>>>

\* the codes of _OPENAIRE_FUNDERS, in the order the dict is iterated
OPENAIRE_FUNDERS ==
    <<<<"N", "I", "H">>,
      <<"N", "S", "F">>,
      <<"U", "K", "R", "I">>,
      <<"S", "N", "S", "F">>,
      <<"F", "C", "T">>,
      <<"N", "W", "O">>,
      <<"N", "H", "M", "R", "C">>,
      <<"A", "R", "C">>,
      <<"A", "K", "A">>,
      <<"A", "N", "R">>,
      <<"R", "C", "N">>,
      <<"W", "T">>,
      <<"F", "W", "F">>,
      <<"T", "U", "B", "I", "T", "A", "K">>,
      <<"S", "F", "I">>,
      <<"I", "R", "F", "D">>,
      <<"N", "N", "F">>,
      <<"M", "Z", "O", "S">>,
      <<"H", "R", "Z", "Z">>,
      <<"I", "N", "C", "a">>,
      <<"M", "E", "S", "T", "D">>>>

EC_CODE == <<"E", "C">>

\* 'oaire\_EC\_%' and 'openaire\_EC\_%', both with ESCAPE '\'
OAIRE_EC_PATTERN ==
    <<"o", "a", "i", "r", "e", "\\", "_", "E", "C", "\\", "_", "%">>

OPENAIRE_EC_PATTERN ==
    <<"o", "p", "e", "n", "a", "i", "r", "e", "\\", "_", "E", "C", "\\", "_", "%">>

\* f"oaire_{code}_" + "%" and f"openaire_{code}_" + "%"
OairePrefixPattern(code) ==
    <<"o", "a", "i", "r", "e", "_">> \o code \o <<"_", "%">>

OpenairePrefixPattern(code) ==
    <<"o", "p", "e", "n", "a", "i", "r", "e", "_">> \o code \o <<"_", "%">>

----------------------------------------------------------------------------
(* The grant_award table: grant[id] is the row with that id *)

Ids == DOMAIN grant

\* the view without its WHERE clause
grant_award_unfiltered(g) == DOMAIN g

\* the view grant_award_deduped: SELECT * FROM grant_award WHERE dedup_of IS NULL
grant_award_deduped(g) == {i \in DOMAIN g : IsNull(g[i].dedup_of)}

\* the rows with dedup_of set
Flagged(g) == {i \in DOMAIN g : NotNull(g[i].dedup_of)}

----------------------------------------------------------------------------
(* run_dedup, line 28: clear all existing dedup flags *)

\* a hard dedup: the flagged rows are deleted instead of being unflagged
ClearFlagsDelete(g) == [i \in grant_award_deduped(g) |-> g[i]]

ClearFlags(g) ==
    [i \in DOMAIN g |->
                IF NotNull(g[i].dedup_of)
                THEN [g[i] EXCEPT !.dedup_of = Null]
                ELSE g[i]]

----------------------------------------------------------------------------
(* _clean_date_anomalies: one operator per UPDATE, in the order of the code *)

Inverted(r) == Gt(r.start_date, r.end_date)

\* the swap left out
SwapInvertedNone(g) == g

SwapInverted(g) ==
    [i \in DOMAIN g |->
        IF Inverted(g[i])
        THEN [g[i] EXCEPT !.start_date = g[i].end_date,
                          !.end_date = g[i].start_date]
        ELSE g[i]]

IsSentinelStart(r) == Eq(r.start_date, Some(SENTINEL_START))

NullSentinelStart(g) ==
    [i \in DOMAIN g |->
        IF IsSentinelStart(g[i]) THEN [g[i] EXCEPT !.start_date = Null] ELSE g[i]]

IsSentinelEnd(r) == Eq(r.end_date, Some(SENTINEL_END))

NullSentinelEnd(g) ==
    [i \in DOMAIN g |->
        IF IsSentinelEnd(g[i]) THEN [g[i] EXCEPT !.end_date = Null] ELSE g[i]]

IsAncientStart(r) == NotNull(r.start_date) /\ Year(r.start_date[1]) < MIN_YEAR

NullAncientStart(g) ==
    [i \in DOMAIN g |->
        IF IsAncientStart(g[i]) THEN [g[i] EXCEPT !.start_date = Null] ELSE g[i]]

IsAncientEnd(r) == NotNull(r.end_date) /\ Year(r.end_date[1]) < MIN_YEAR

\* the check of ancient end dates left out
NullAncientEndNone(g) == g

NullAncientEnd(g) ==
    [i \in DOMAIN g |->
        IF IsAncientEnd(g[i]) THEN [g[i] EXCEPT !.end_date = Null] ELSE g[i]]

IsFutureEnd(r) == NotNull(r.end_date) /\ Year(r.end_date[1]) > MAX_YEAR

NullFutureEnd(g) ==
    [i \in DOMAIN g |->
        IF IsFutureEnd(g[i]) THEN [g[i] EXCEPT !.end_date = Null] ELSE g[i]]

\* the six UPDATEs with the swap as the last of them, as the docstring lists it
CleanDateAnomaliesSwapLast(g) ==
    SwapInverted(NullFutureEnd(NullAncientEnd(NullAncientStart(
        NullSentinelEnd(NullSentinelStart(g))))))

\* the table after all six UPDATEs
CleanDateAnomalies(g) ==
    NullFutureEnd(NullAncientEnd(NullAncientStart(
        NullSentinelEnd(NullSentinelStart(SwapInverted(g))))))

\* the counts dict: each COUNT is taken just before its UPDATE
DateCounts(g) ==
    LET g1 == SwapInverted(g)
        g2 == NullSentinelStart(g1)
        g3 == NullSentinelEnd(g2)
        g4 == NullAncientStart(g3)
        g5 == NullAncientEnd(g4)
    IN  [swapped        |-> Cardinality({i \in DOMAIN g : Inverted(g[i])}),
         sentinel_start |-> Cardinality({i \in DOMAIN g1 : IsSentinelStart(g1[i])}),
         sentinel_end   |-> Cardinality({i \in DOMAIN g2 : IsSentinelEnd(g2[i])}),
         ancient_start  |-> Cardinality({i \in DOMAIN g3 : IsAncientStart(g3[i])}),
         ancient_end    |-> Cardinality({i \in DOMAIN g4 : IsAncientEnd(g4[i])}),
         future_end     |-> Cardinality({i \in DOMAIN g5 : IsFutureEnd(g5[i])})]

----------------------------------------------------------------------------
(* _normalize_country_codes and _normalize_currency_codes *)

RECURSIVE NormalizeCountry(_, _)
NormalizeCountry(g, k) ==
    IF k > Len(COUNTRY_CODE_MAP) THEN g
    ELSE NormalizeCountry(
            [i \in DOMAIN g |->
                IF Eq(g[i].pi_country, Some(COUNTRY_CODE_MAP[k][1]))
                THEN [g[i] EXCEPT !.pi_country = Some(COUNTRY_CODE_MAP[k][2])]
                ELSE g[i]],
            k + 1)

RECURSIVE CountryCount(_, _)
CountryCount(g, k) ==
    IF k > Len(COUNTRY_CODE_MAP) THEN 0
    ELSE Cardinality({i \in DOMAIN g : Eq(g[i].pi_country, Some(COUNTRY_CODE_MAP[k][1]))})
         + CountryCount(
              [i \in DOMAIN g |->
                IF Eq(g[i].pi_country, Some(COUNTRY_CODE_MAP[k][1]))
                THEN [g[i] EXCEPT !.pi_country = Some(COUNTRY_CODE_MAP[k][2])]
                ELSE g[i]],
              k + 1)

\* the loop without the first entry of the map
NormalizeCountryCodesFromSecond(g) == NormalizeCountry(g, 2)

\* the loop with its UPDATEs restricted to the cordis_bulk rows, so that the
\* rows enrichment copies from keep their codes
NormalizeCountryCodesCordisOnly(g) ==
    [i \in DOMAIN g |->
        IF g[i].source = "cordis_bulk" THEN NormalizeCountry(g, 1)[i] ELSE g[i]]

NormalizeCountryCodes(g) == NormalizeCountry(g, 1)

RECURSIVE NormalizeCurrency(_, _)
NormalizeCurrency(g, k) ==
    IF k > Len(CURRENCY_CODE_MAP) THEN g
    ELSE NormalizeCurrency(
            [i \in DOMAIN g |->
                IF Eq(g[i].currency, Some(CURRENCY_CODE_MAP[k][1]))
                THEN [g[i] EXCEPT !.currency = Some(CURRENCY_CODE_MAP[k][2])]
                ELSE g[i]],
            k + 1)

RECURSIVE CurrencyCount(_, _)
CurrencyCount(g, k) ==
    IF k > Len(CURRENCY_CODE_MAP) THEN 0
    ELSE Cardinality({i \in DOMAIN g : Eq(g[i].currency, Some(CURRENCY_CODE_MAP[k][1]))})
         + CurrencyCount(
              [i \in DOMAIN g |->
                IF Eq(g[i].currency, Some(CURRENCY_CODE_MAP[k][1]))
                THEN [g[i] EXCEPT !.currency = Some(CURRENCY_CODE_MAP[k][2])]
                ELSE g[i]],
              k + 1)

NormalizeCurrencyCodes(g) == NormalizeCurrency(g, 1)

----------------------------------------------------------------------------
(* _link_funders.  funder[id] is the short_name of the funder row with that *)
(* id; ids come from seq_funder, which starts at 1.                         *)

\* the loop with no existence check for its first code, which is inserted
\* by every call
RECURSIVE EnsureFundersFirstUnchecked(_, _)
EnsureFundersFirstUnchecked(f, k) ==
    IF k > Len(OPENAIRE_FUNDERS) THEN f
    ELSE EnsureFundersFirstUnchecked(
            IF k > 1 /\ \E i \in DOMAIN f : Eq(f[i], Some(OPENAIRE_FUNDERS[k]))
            THEN f
            ELSE Append(f, Some(OPENAIRE_FUNDERS[k])),
            k + 1)

\* lines 187-196: insert every code of _OPENAIRE_FUNDERS that has no row yet
RECURSIVE EnsureFunders(_, _)
EnsureFunders(f, k) ==
    IF k > Len(OPENAIRE_FUNDERS) THEN f
    ELSE EnsureFunders(
            IF \E i \in DOMAIN f : Eq(f[i], Some(OPENAIRE_FUNDERS[k]))
            THEN f
            ELSE Append(f, Some(OPENAIRE_FUNDERS[k])),
            k + 1)

\* lines 199-202: the possible short_name -> id dicts.  The SELECT has no
\* ORDER BY, so a short_name held by several rows may map to any of them.
FunderMaps(f) ==
    LET names == {f[i][1] : i \in {j \in DOMAIN f : NotNull(f[j])}}
    IN  Choices([c \in names |-> {i \in DOMAIN f : Eq(f[i], Some(c))}])

\* the WHERE clause without its funder_id IS NULL
IsCordis(r) == r.source = "cordis_bulk"

\* lines 207-216: CORDIS grants without a funder get the EC funder
IsUnlinkedCordis(r) == r.source = "cordis_bulk" /\ IsNull(r.funder_id)

LinkCordis(g, m) ==
    IF EC_CODE \in DOMAIN m /\ m[EC_CODE] # 0
    THEN [i \in DOMAIN g |->
        IF IsUnlinkedCordis(g[i]) THEN [g[i] EXCEPT !.funder_id = Some(m[EC_CODE])] ELSE g[i]]
    ELSE g

LinkCordisCount(g, m) ==
    IF EC_CODE \in DOMAIN m /\ m[EC_CODE] # 0
    THEN Cardinality({i \in DOMAIN g : IsUnlinkedCordis(g[i])})
    ELSE 0

\* lines 219-248: the codes whose prefix pattern the row's source_id matches.
\* The pattern is prefix + "%" with no ESCAPE, so its underscores are wildcards.
LinkCodes(r, m) ==
    {c \in DOMAIN m :
        /\ IsNull(r.funder_id)
        /\ \/ /\ r.source = "openaire_bulk"
              /\ Like(r.source_id, OairePrefixPattern(c), NoEscape)
           \/ /\ r.source = "openaire"
              /\ Like(r.source_id, OpenairePrefixPattern(c), NoEscape)}

\* the rows the two loops link, each with the codes that can reach it first
\* (the codes are tried in the order of the dict, which is the order of an
\* unordered SELECT)
LinkPicks(g, m) ==
    Choices([i \in {j \in DOMAIN g : LinkCodes(g[j], m) # {}} |-> LinkCodes(g[i], m)])

LinkOpenaire(g, m, pick) ==
    [i \in DOMAIN g |->
        IF i \in DOMAIN pick
        THEN [g[i] EXCEPT !.funder_id = Some(m[pick[i]])]
        ELSE g[i]]

----------------------------------------------------------------------------
(* _enrich_cordis_from_openaire *)

\* project_id IS NOT NULL without the AND project_id != ''
NonEmptyNotNullOnly(pid) == NotNull(pid)

\* project_id IS NOT NULL AND project_id != ''
NonEmpty(pid) == NotNull(pid) /\ Ne(pid, Some(""))

\* the openaire_bulk rows the UPDATE ... FROM joins to cordis row c
Donors(g, c) ==
    {o \in DOMAIN g : g[o].source = "openaire_bulk"
                      /\ Eq(g[c].project_id, g[o].project_id)}

HasGap(r) == IsNull(r.total_funding) \/ IsNull(r.pi_country)

\* the WHERE clause of the UPDATE on the cordis side
Enrichable(g, c) ==
    /\ g[c].source = "cordis_bulk"
    /\ NonEmpty(g[c].project_id)
    /\ HasGap(g[c])

\* the count taken over the join instead of with EXISTS: one per donor
EnrichCountJoined(g) ==
    Cardinality({<<c, o>> \in (DOMAIN g) \X (DOMAIN g) :
                    Enrichable(g, c) /\ o \in Donors(g, c)})

\* lines 281-292: the count, taken before the UPDATE
EnrichCount(g) ==
    Cardinality({c \in DOMAIN g : Enrichable(g, c) /\ Donors(g, c) # {}})

\* a row joined to several donors is updated from one of them
EnrichPicks(g) ==
    Choices([c \in {x \in DOMAIN g : Enrichable(g, x) /\ Donors(g, x) # {}}
                |-> Donors(g, c)])

\* COALESCE with its arguments the other way round: the donor's value wins
EnrichRowDonorFirst(c, o, now) ==
    [c EXCEPT !.total_funding = Coalesce(o.total_funding, c.total_funding),
              !.pi_country = Coalesce(o.pi_country, c.pi_country),
              !.updated_at = now]

\* the SET clause for cordis row c and donor row o
EnrichRow(c, o, now) ==
    [c EXCEPT !.total_funding = Coalesce(c.total_funding, o.total_funding),
              !.pi_country = Coalesce(c.pi_country, o.pi_country),
              !.updated_at = now]

EnrichCordisFromOpenaire(g, pick, now) ==
    [i \in DOMAIN g |->
        IF i \in DOMAIN pick THEN EnrichRow(g[i], g[pick[i]], now) ELSE g[i]]

----------------------------------------------------------------------------
(* _flag_openaire_ec_duplicates *)

\* the two patterns without their ESCAPE clause: the underscores are wildcards
HasEcPrefixUnescaped(r) ==
    \/ /\ r.source = "openaire_bulk"
       /\ Like(r.source_id, <<"o", "a", "i", "r", "e", "_", "E", "C", "_", "%">>, NoEscape)
    \/ /\ r.source = "openaire"
       /\ Like(r.source_id,
               <<"o", "p", "e", "n", "a", "i", "r", "e", "_", "E", "C", "_", "%">>, NoEscape)

\* source and source_id LIKE of the two UPDATEs
HasEcPrefix(r) ==
    \/ r.source = "openaire_bulk" /\ Like(r.source_id, OAIRE_EC_PATTERN, Backslash)
    \/ r.source = "openaire" /\ Like(r.source_id, OPENAIRE_EC_PATTERN, Backslash)

\* the subquery without its c.source = 'cordis_bulk'
CordisMatchesAnySource(g, o) ==
    {c \in DOMAIN g : Eq(g[c].project_id, g[o].project_id)}

\* the cordis_bulk rows with the project_id of row o
CordisMatches(g, o) ==
    {c \in DOMAIN g : g[c].source = "cordis_bulk"
                      /\ Eq(g[c].project_id, g[o].project_id)}

EcFlaggable(g, o) ==
    /\ HasEcPrefix(g[o])
    /\ NonEmpty(g[o].project_id)
    /\ CordisMatches(g, o) # {}

\* SELECT c.id ... LIMIT 1 has no ORDER BY: any matching row may be returned
EcTargets(g, o) == CordisMatches(g, o)

EcPicks(g) ==
    Choices([o \in {x \in DOMAIN g : EcFlaggable(g, x)} |-> EcTargets(g, o)])

SetDedupOf(g, pick) ==
    [i \in DOMAIN g |->
        IF i \in DOMAIN pick THEN [g[i] EXCEPT !.dedup_of = Some(pick[i])] ELSE g[i]]

\* lines 362-368
EcCount(g) ==
    Cardinality({i \in DOMAIN g :
        /\ NotNull(g[i].dedup_of)
        /\ g[i].source \in {"openaire_bulk", "openaire"}
        /\ \/ Like(g[i].source_id, OAIRE_EC_PATTERN, Backslash)
           \/ Like(g[i].source_id, OPENAIRE_EC_PATTERN, Backslash)})

----------------------------------------------------------------------------
(* _flag_openaire_api_duplicates *)

\* the subquery matching unflagged rows of any source, among them the
\* openaire rows that the same UPDATE flags
BulkMatchesAnySource(g, a) ==
    {b \in DOMAIN g : /\ b # a
                      /\ Eq(g[b].project_id, g[a].project_id)
                      /\ IsNull(g[b].dedup_of)}

\* the unflagged openaire_bulk rows with the project_id of row a
BulkMatches(g, a) ==
    {b \in DOMAIN g : /\ g[b].source = "openaire_bulk"
                      /\ Eq(g[b].project_id, g[a].project_id)
                      /\ IsNull(g[b].dedup_of)}

ApiFlaggable(g, a) ==
    /\ g[a].source = "openaire"
    /\ IsNull(g[a].dedup_of)
    /\ NonEmpty(g[a].project_id)
    /\ BulkMatches(g, a) # {}

\* the subquery without its b.source = 'openaire_bulk'
ApiTargetsAnySource(g, a) ==
    {b \in DOMAIN g : Eq(g[b].project_id, g[a].project_id) /\ IsNull(g[b].dedup_of)}

\* SELECT b.id ... LIMIT 1 has no ORDER BY: any matching row may be returned
ApiTargets(g, a) == BulkMatches(g, a)

ApiPicks(g) ==
    Choices([a \in {x \in DOMAIN g : ApiFlaggable(g, x)} |-> ApiTargets(g, a)])

\* lines 402-405
ApiCount(g) ==
    Cardinality({i \in DOMAIN g : g[i].source = "openaire" /\ NotNull(g[i].dedup_of)})

----------------------------------------------------------------------------
(* _flag_within_source_duplicates *)

\* the rows with the source and source_id of row d
NaturalKeyGroup(g, d) ==
    {x \in DOMAIN g : g[x].source = g[d].source /\ g[x].source_id = g[d].source_id}

\* MAX(g2.id) instead of MIN(g2.id)
WithinTargetMax(g, d) ==
    LET G == NaturalKeyGroup(g, d)
    IN  Some(CHOOSE m \in G : \A x \in G : m >= x)

\* SELECT MIN(g2.id) ...
WithinTarget(g, d) == MinId(NaturalKeyGroup(g, d))

WithinFlaggable(g, d) ==
    /\ IsNull(g[d].dedup_of)
    /\ Ne(Some(d), WithinTarget(g, d))
    /\ \E x \in NaturalKeyGroup(g, d) : x # d

FlagWithinSourceDuplicates(g) ==
    [d \in DOMAIN g |->
        IF WithinFlaggable(g, d)
        THEN [g[d] EXCEPT !.dedup_of = WithinTarget(g, d)]
        ELSE g[d]]

\* lines 440-449: rows whose dedup_of row has their source and source_id
WithinCount(g) ==
    Cardinality({d \in DOMAIN g :
        /\ NotNull(g[d].dedup_of)
        /\ g[d].dedup_of[1] \in DOMAIN g
        /\ g[d].source = g[g[d].dedup_of[1]].source
        /\ g[d].source_id = g[g[d].dedup_of[1]].source_id})

----------------------------------------------------------------------------
(* Bounds and the tables the runs start from *)

\* rows in the table of the duplicate-detection runs
MaxRecords == 3

\* rows in the table of the date-cleaning runs
MaxDated == 1

\* calls of run_dedup in a row
MaxRuns == 2

H2020_1 == <<"H", "2", "0", "2", "0", "_", "1">>

OAIRE_EC_1 == <<"o", "a", "i", "r", "e", "_", "E", "C", "_", "1">>

OAIRE_NHMRC_1 == <<"o", "a", "i", "r", "e", "_", "N", "H", "M", "R", "C", "_", "1">>

OPENAIRE_EC_1 == <<"o", "p", "e", "n", "a", "i", "r", "e", "_", "E", "C", "_", "1">>

OPENAIRE_RCN_1 == <<"o", "p", "e", "n", "a", "i", "r", "e", "_", "R", "C", "N", "_", "1">>

\* a freshly ingested row: no funder reference, no flag
Row(source, source_id, project_id, start_date, end_date, total_funding, pi_country) ==
    [source        |-> source,
     source_id     |-> source_id,
     project_id    |-> project_id,
     start_date    |-> start_date,
     end_date      |-> end_date,
     total_funding |-> total_funding,
     pi_country    |-> pi_country,
     currency      |-> Some("EUR"),
     funder_id     |-> Null,
     dedup_of      |-> Null,
     updated_at    |-> 0]

\* (source, source_id) pairs following each source's naming convention
FlagKeys ==
    {<<"cordis_bulk", H2020_1>>,
     <<"openaire_bulk", OAIRE_EC_1>>,
     <<"openaire_bulk", OAIRE_NHMRC_1>>,
     <<"openaire", OPENAIRE_EC_1>>,
     <<"openaire", OPENAIRE_RCN_1>>}

FlagRows ==
    {Row(k[1], k[2], Some(p), Null, Null, Null, Null) :
        k \in FlagKeys, p \in {"1", "2"}}

\* the dates a row may carry: NULL, both sentinels, and dates on each side
\* of the two year limits
SampleDates ==
    {Null, Some(19000101), Some(19491231), Some(19500101), Some(20200101),
     Some(20401231), Some(20410101), Some(99991231)}

DateRows ==
    {Row("openaire_bulk", OAIRE_NHMRC_1, Some("1"), s, e, Null, Null) :
        s \in SampleDates, e \in SampleDates}

\* source_ids that miss the EC prefix by their delimiter
OAIRE_EC_1_DASHED == <<"o", "a", "i", "r", "e", "-", "E", "C", "-", "1">>

OPENAIRE_EC_1_DASHED == <<"o", "p", "e", "n", "a", "i", "r", "e", "-", "E", "C", "-", "1">>

\* rows around the conditions of the EC phase: empty and NULL project_ids,
\* other funders, near-miss prefixes, and the bulk prefix on an API row
PrefixRows ==
    {Row("cordis_bulk", H2020_1, p, Null, Null, Null, Null) : p \in {Some("1"), Some("")}}
    \cup {Row("openaire_bulk", OAIRE_EC_1, p, Null, Null, Null, Null) :
              p \in {Some("1"), Some("2"), Some(""), Null}}
    \cup {Row("openaire_bulk", k, Some("1"), Null, Null, Null, Null) :
              k \in {OAIRE_EC_1_DASHED, OAIRE_NHMRC_1}}
    \cup {Row("openaire", k, Some("1"), Null, Null, Null, Null) :
              k \in {OPENAIRE_EC_1, OPENAIRE_EC_1_DASHED, OAIRE_EC_1}}

\* cordis rows with one or no gap, and donors holding one or both values
EnrichRows ==
    {Row("cordis_bulk", H2020_1, Some("1"), Null, Null, Some(100), Null),
     Row("cordis_bulk", H2020_1, Some("1"), Null, Null, Null, Some("DE")),
     Row("cordis_bulk", H2020_1, Some("1"), Null, Null, Some(100), Some("DE")),
     Row("cordis_bulk", H2020_1, Some(""), Null, Null, Null, Null),
     Row("openaire_bulk", OAIRE_EC_1, Some("1"), Null, Null, Some(200), Some("UK")),
     Row("openaire_bulk", OAIRE_EC_1, Some("1"), Null, Null, Null, Some("UK")),
     Row("openaire_bulk", OAIRE_EC_1, Some("1"), Null, Null, Some(200), Null),
     Row("openaire_bulk", OAIRE_EC_1, Some(""), Null, Null, Some(200), Some("UK")),
     Row("openaire_bulk", OAIRE_NHMRC_1, Some("1"), Null, Null, Some(300), Some("AU"))}

\* rows with the two mapped codes, their ISO codes, and codes the map lacks
CountryRows ==
    {Row("cordis_bulk", H2020_1, Some("1"), Null, Null, Null, c) :
        c \in {Null, Some("UK"), Some("EL"), Some("DE"), Some("GB"), Some("GR"), Some("uk")}}

OAIRE_NSF_1 == <<"o", "a", "i", "r", "e", "_", "N", "S", "F", "_", "1">>

OAIRE_NSFC_1 == <<"o", "a", "i", "r", "e", "_", "N", "S", "F", "C", "_", "1">>

OPENAIRE_NSF_1 == <<"o", "p", "e", "n", "a", "i", "r", "e", "_", "N", "S", "F", "_", "1">>

OPENAIRE_NSFC_1 ==
    <<"o", "p", "e", "n", "a", "i", "r", "e", "_", "N", "S", "F", "C", "_", "1">>

\* the fallback source_id f"oaire_{openaire_id[:24]}" of a record without a code
OAIRE_ID_1 == <<"o", "a", "i", "r", "e", "_", "n", "s", "f", ":", ":", "1">>

\* rows of a funder the table knows (NSF), of a funder it does not know whose
\* code starts with a known code (NSFC), and rows without a funder code
LinkRows ==
    {Row("openaire_bulk", k, Some("1"), Null, Null, Null, Null) :
        k \in {OAIRE_NSF_1, OAIRE_NSFC_1, OAIRE_ID_1}}
    \cup {Row("openaire", k, Some("1"), Null, Null, Null, Null) :
              k \in {OPENAIRE_NSF_1, OPENAIRE_NSFC_1}}
    \cup {Row("cordis_bulk", H2020_1, Some("1"), Null, Null, Null, Null)}

\* rows that give every phase of a run something to do: inverted and sentinel
\* dates, the country codes and the currency code of the two maps, gaps that
\* a donor can fill, and duplicates across and within the sources
RunRows ==
    {Row("cordis_bulk", H2020_1, Some("1"), Some(20200101), Some(19000101), Null, Null),
     Row("cordis_bulk", H2020_1, Some("1"), Null, Null, Some(100), Some("EL")),
     Row("openaire_bulk", OAIRE_EC_1, Some("1"), Null, Null, Some(200), Some("UK")),
     [Row("openaire_bulk", OAIRE_NHMRC_1, Some("2"), Null, Some(99991231), Some(300), Null)
         EXCEPT !.currency = Some("$")],
     Row("openaire", OPENAIRE_EC_1, Some("1"), Null, Null, Null, Null),
     Row("openaire", OPENAIRE_RCN_1, Some("2"), Null, Null, Null, Null)}

FP7_1 == <<"F", "P", "7", "_", "1">>

\* the id _link_funders has given the k-th code of _OPENAIRE_FUNDERS in a
\* database with the seeded funders
OpenaireFunderId(k) == Len(SEED_FUNDERS) + k

\* rows as an earlier run_dedup has left them and upsert_grant has since
\* brought to one project_id: linked to their funders, without gaps or
\* anomalies, so that a run writes their dedup_of and nothing else
SettledRows ==
    {[Row(k[1], k[2], Some("1"), Some(20200101), Some(20201231), Some(100), Some("DE"))
         EXCEPT !.funder_id = Some(k[3])] :
        k \in {<<"cordis_bulk", H2020_1, 1>>,
               <<"cordis_bulk", FP7_1, 1>>,
               <<"openaire_bulk", OAIRE_EC_1, 1>>,
               <<"openaire_bulk", OAIRE_NHMRC_1, OpenaireFunderId(7)>>,
               <<"openaire", OPENAIRE_EC_1, 1>>,
               <<"openaire", OPENAIRE_RCN_1, OpenaireFunderId(11)>>}}

EmptyStats ==
    [dates_fixed           |-> DateCounts(<<>>),
     countries_fixed       |-> 0,
     currencies_fixed      |-> 0,
     funders_linked        |-> 0,
     enriched              |-> 0,
     ec_duplicates_flagged |-> 0,
     api_duplicates_flagged |-> 0,
     within_source_flagged |-> 0]

\* the state after init_db and ingestion of the given rows; seq_grant is the
\* value nextval('seq_grant') returned last
InitWith(n, rows) ==
    /\ grant \in [1..n -> rows]
    /\ funder = [i \in 1..Len(SEED_FUNDERS) |-> Some(SEED_FUNDERS[i])]
    /\ pc = "idle"
    /\ stats = EmptyStats
    /\ runs = 0
    /\ before = grant
    /\ history = <<>>
    /\ seq_grant = n

Init == InitWith(MaxRecords, FlagRows)

InitDates == InitWith(MaxDated, DateRows)

InitPrefix == InitWith(MaxRecords, PrefixRows)

InitEnrich == InitWith(MaxRecords, EnrichRows)

InitCountry == InitWith(MaxRecords, CountryRows)

InitLink == InitWith(MaxRecords, LinkRows)

InitRun == InitWith(MaxRecords, RunRows)

\* a table of settled rows with pairwise different natural keys, and the
\* funder table an earlier _link_funders has completed
InitSettled ==
    /\ grant \in {g \in [1..MaxRecords -> SettledRows] :
                     \A i, j \in 1..MaxRecords : g[i] = g[j] => i = j}
    /\ funder = EnsureFunders([i \in 1..Len(SEED_FUNDERS) |-> Some(SEED_FUNDERS[i])], 1)
    /\ pc = "idle"
    /\ stats = EmptyStats
    /\ runs = 0
    /\ before = grant
    /\ history = <<>>
    /\ seq_grant = MaxRecords

----------------------------------------------------------------------------
(* run_dedup: one step per phase.  pc names the phase to run next; before  *)
(* is the table as the phase that ran last found it; history holds, for    *)
(* each completed run, the stats it returned and the table it left.        *)

\* line 28
Clear ==
    /\ pc = "idle"
    /\ runs < MaxRuns
    /\ before' = grant
    /\ grant' = ClearFlags(grant)
    /\ stats' = EmptyStats
    /\ pc' = "dates"
    /\ UNCHANGED <<funder, runs, history, seq_grant>>

\* the date phase handing over to the currency phase: _normalize_country_codes
\* is skipped
CleanDatesSkippingCountry ==
    /\ pc = "dates"
    /\ before' = grant
    /\ grant' = CleanDateAnomalies(grant)
    /\ stats' = [stats EXCEPT !.dates_fixed = DateCounts(grant)]
    /\ pc' = "currency"
    /\ UNCHANGED <<funder, runs, history, seq_grant>>

\* line 30
CleanDates ==
    /\ pc = "dates"
    /\ before' = grant
    /\ grant' = CleanDateAnomalies(grant)
    /\ stats' = [stats EXCEPT !.dates_fixed = DateCounts(grant)]
    /\ pc' = "country"
    /\ UNCHANGED <<funder, runs, history, seq_grant>>

\* line 31
NormalizeCountries ==
    /\ pc = "country"
    /\ before' = grant
    /\ grant' = NormalizeCountryCodes(grant)
    /\ stats' = [stats EXCEPT !.countries_fixed = CountryCount(grant, 1)]
    /\ pc' = "currency"
    /\ UNCHANGED <<funder, runs, history, seq_grant>>

\* line 32
NormalizeCurrencies ==
    /\ pc = "currency"
    /\ before' = grant
    /\ grant' = NormalizeCurrencyCodes(grant)
    /\ stats' = [stats EXCEPT !.currencies_fixed = CurrencyCount(grant, 1)]
    /\ pc' = "link"
    /\ UNCHANGED <<funder, runs, history, seq_grant>>

\* line 33
LinkFunders ==
    /\ pc = "link"
    /\ before' = grant
    /\ funder' = EnsureFunders(funder, 1)
    /\ \E m \in FunderMaps(funder') :
         LET g1 == LinkCordis(grant, m)
         IN  \E pick \in LinkPicks(g1, m) :
               /\ grant' = LinkOpenaire(g1, m, pick)
               /\ stats' = [stats EXCEPT !.funders_linked =
                               LinkCordisCount(grant, m) + Cardinality(DOMAIN pick)]
    /\ pc' = "enrich"
    /\ UNCHANGED <<runs, history, seq_grant>>

\* line 34
Enrich ==
    /\ pc = "enrich"
    /\ before' = grant
    /\ \E pick \in EnrichPicks(grant) :
         grant' = EnrichCordisFromOpenaire(grant, pick, runs + 1)
    /\ stats' = [stats EXCEPT !.enriched = EnrichCount(grant)]
    /\ pc' = "flag_ec"
    /\ UNCHANGED <<funder, runs, history, seq_grant>>

\* line 35
FlagEc ==
    /\ pc = "flag_ec"
    /\ before' = grant
    /\ \E pick \in EcPicks(grant) : grant' = SetDedupOf(grant, pick)
    /\ stats' = [stats EXCEPT !.ec_duplicates_flagged = EcCount(grant')]
    /\ pc' = "flag_api"
    /\ UNCHANGED <<funder, runs, history, seq_grant>>

\* line 36
FlagApi ==
    /\ pc = "flag_api"
    /\ before' = grant
    /\ \E pick \in ApiPicks(grant) : grant' = SetDedupOf(grant, pick)
    /\ stats' = [stats EXCEPT !.api_duplicates_flagged = ApiCount(grant')]
    /\ pc' = "flag_within"
    /\ UNCHANGED <<funder, runs, history, seq_grant>>

\* line 37
FlagWithin ==
    /\ pc = "flag_within"
    /\ before' = grant
    /\ grant' = FlagWithinSourceDuplicates(grant)
    /\ stats' = [stats EXCEPT !.within_source_flagged = WithinCount(grant')]
    /\ pc' = "report"
    /\ UNCHANGED <<funder, runs, history, seq_grant>>

\* lines 39-50: the stats dict is returned
Report ==
    /\ pc = "report"
    /\ history' = Append(history, [stats |-> stats, grant |-> grant])
    /\ runs' = runs + 1
    /\ pc' = "idle"
    /\ UNCHANGED <<grant, funder, stats, before, seq_grant>>

Next ==
    \/ Clear
    \/ CleanDates
    \/ NormalizeCountries
    \/ NormalizeCurrencies
    \/ LinkFunders
    \/ Enrich
    \/ FlagEc
    \/ FlagApi
    \/ FlagWithin
    \/ Report

Spec == Init /\ [][Next]_vars

SpecDates == InitDates /\ [][Next]_vars

SpecPrefix == InitPrefix /\ [][Next]_vars

SpecEnrich == InitEnrich /\ [][Next]_vars

SpecCountry == InitCountry /\ [][Next]_vars

SpecLink == InitLink /\ [][Next]_vars

SpecRun == InitRun /\ [][Next]_vars

SpecSettled == InitSettled /\ [][Next]_vars

----------------------------------------------------------------------------
(* Ingestion between runs of run_dedup: upsert_grant (which calls           *)
(* insert_grant for a new natural key), the OpenAIRE bulk load              *)
(* load_csv_to_db, and _seed_funders.  A row's updated_at is the number of  *)
(* run_dedup calls that had returned when it was written.                   *)

\* the highest id nextval('seq_grant') hands out
MaxSeq == 2

\* rows in a staging CSV
MaxCsv == 1

\* float(grant.total_funding) if grant.total_funding else None
FundingParam(v) == IF v = Some(0) THEN Null ELSE v

\* insert_grant: the INSERT names neither funder_id nor dedup_of
InsertRow(g, id, r, now) ==
    g @@ (id :> [r EXCEPT !.total_funding = FundingParam(r.total_funding),
                          !.funder_id = Null,
                          !.dedup_of = Null,
                          !.updated_at = now])

\* upsert_grant: the rows its SELECT id ... WHERE source = ? AND source_id = ? finds
UpsertMatches(g, r) ==
    {i \in DOMAIN g : g[i].source = r.source /\ g[i].source_id = r.source_id}

\* upsert_grant: the SET clause of its UPDATE
UpsertRow(old, r, now) ==
    [old EXCEPT !.project_id = r.project_id,
                !.pi_country = r.pi_country,
                !.start_date = r.start_date,
                !.end_date = r.end_date,
                !.total_funding = FundingParam(r.total_funding),
                !.updated_at = now]

\* CASE WHEN x = '' THEN NULL ELSE x END
EmptyToNull(x) == IF x = "" THEN Null ELSE Some(x)

\* CAST(total_funding AS DOUBLE) of the amounts the staging CSVs hold
CastDouble(x) == IF x = "200" THEN 200 ELSE 300

\* load_csv_to_db: the SELECT list of its INSERT, for one line of the CSV
CsvRow(line, now) ==
    [source        |-> "openaire_bulk",
     source_id     |-> line.source_id,
     project_id    |-> Some(line.project_id),
     start_date    |-> Null,
     end_date      |-> Null,
     total_funding |-> IF line.total_funding = "" THEN Null
                       ELSE Some(CastDouble(line.total_funding)),
     pi_country    |-> EmptyToNull(line.pi_country),
     currency      |-> Some(line.currency),
     funder_id     |-> Null,
     dedup_of      |-> Null,
     updated_at    |-> now]

\* load_csv_to_db: DELETE the openaire_bulk rows, then INSERT one row per line
\* of the CSV with ids from seq_grant
LoadCsv(g, csv, seq, now) ==
    LET kept == {i \in DOMAIN g : g[i].source # "openaire_bulk"}
    IN  [i \in kept \cup ((seq + 1)..(seq + Len(csv))) |->
            IF i \in kept THEN g[i] ELSE CsvRow(csv[i - seq], now)]

\* the records the sources hand to insert_grant and upsert_grant
IngestRows ==
    {Row("cordis_bulk", H2020_1, Some("1"), Null, Null, f, Null) : f \in {Some(0), Some(100)}}
    \cup {Row("openaire", OPENAIRE_RCN_1, Some("1"), Null, Null, Null, Null)}

\* the lines _extract_to_csv writes
CsvLines ==
    {[source_id |-> OAIRE_EC_1, project_id |-> "1", pi_country |-> "UK",
      total_funding |-> "200", currency |-> "EUR"],
     [source_id |-> OAIRE_NHMRC_1, project_id |-> "1", pi_country |-> "",
      total_funding |-> "", currency |-> "$"]}

CsvFiles == UNION {[1..n -> CsvLines] : n \in 0..MaxCsv}

\* get_connection on a new database: create_tables leaves both tables empty
InitIngest ==
    /\ grant = <<>>
    /\ funder = <<>>
    /\ pc = "idle"
    /\ stats = EmptyStats
    /\ runs = 0
    /\ before = grant
    /\ history = <<>>
    /\ seq_grant = 0

UpsertGrant ==
    /\ pc = "idle"
    /\ \E r \in IngestRows :
         IF UpsertMatches(grant, r) # {}
         THEN /\ \E i \in UpsertMatches(grant, r) :
                    grant' = [grant EXCEPT ![i] = UpsertRow(grant[i], r, runs)]
              /\ seq_grant' = seq_grant
         ELSE /\ seq_grant < MaxSeq
              /\ grant' = InsertRow(grant, seq_grant + 1, r, runs)
              /\ seq_grant' = seq_grant + 1
    /\ UNCHANGED <<funder, pc, stats, runs, before, history>>

LoadCsvToDb ==
    /\ pc = "idle"
    /\ \E csv \in CsvFiles :
         /\ seq_grant + Len(csv) <= MaxSeq
         /\ grant' = LoadCsv(grant, csv, seq_grant, runs)
         /\ seq_grant' = seq_grant + Len(csv)
    /\ UNCHANGED <<funder, pc, stats, runs, before, history>>

\* _seed_funders: nothing is inserted into a funder table that holds rows
SeedFunders ==
    /\ pc = "idle"
    /\ funder' = IF Len(funder) > 0 THEN funder
                 ELSE [i \in 1..Len(SEED_FUNDERS) |-> Some(SEED_FUNDERS[i])]
    /\ UNCHANGED <<grant, pc, stats, runs, before, history, seq_grant>>

NextIngest ==
    \/ Next
    \/ UpsertGrant
    \/ LoadCsvToDb
    \/ SeedFunders

SpecIngest == InitIngest /\ [][NextIngest]_vars

----------------------------------------------------------------------------
(* A failing statement.  run_dedup has no try/except and opens no           *)
(* transaction: an exception raised by conn.execute leaves run_dedup at     *)
(* once, and what the statements before it have written stays written.     *)
(* Each operator below gives the tables a phase can leave when one of its   *)
(* statements fails: the table after each proper prefix of its UPDATEs,     *)
(* and after all of them where a SELECT COUNT follows the last one.         *)

DatesPartial(g) ==
    LET g1 == SwapInverted(g)
        g2 == NullSentinelStart(g1)
        g3 == NullSentinelEnd(g2)
        g4 == NullAncientStart(g3)
        g5 == NullAncientEnd(g4)
    IN  {g, g1, g2, g3, g4, g5}

\* the loop of _normalize_country_codes after the first n entries of the map
RECURSIVE NormalizeCountryFirst(_, _)
NormalizeCountryFirst(g, n) ==
    IF n = 0 THEN g
    ELSE LET h == NormalizeCountryFirst(g, n - 1)
         IN  [i \in DOMAIN h |->
                IF Eq(h[i].pi_country, Some(COUNTRY_CODE_MAP[n][1]))
                THEN [h[i] EXCEPT !.pi_country = Some(COUNTRY_CODE_MAP[n][2])]
                ELSE h[i]]

CountryPartial(g) ==
    {NormalizeCountryFirst(g, n) : n \in 0..(Len(COUNTRY_CODE_MAP) - 1)}

\* the loop of _normalize_currency_codes after the first n entries of the map
RECURSIVE NormalizeCurrencyFirst(_, _)
NormalizeCurrencyFirst(g, n) ==
    IF n = 0 THEN g
    ELSE LET h == NormalizeCurrencyFirst(g, n - 1)
         IN  [i \in DOMAIN h |->
                IF Eq(h[i].currency, Some(CURRENCY_CODE_MAP[n][1]))
                THEN [h[i] EXCEPT !.currency = Some(CURRENCY_CODE_MAP[n][2])]
                ELSE h[i]]

CurrencyPartial(g) ==
    {NormalizeCurrencyFirst(g, n) : n \in 0..(Len(CURRENCY_CODE_MAP) - 1)}

\* the loop of lines 187-196 after the first n codes
RECURSIVE EnsureFundersFirst(_, _)
EnsureFundersFirst(f, n) ==
    IF n = 0 THEN f
    ELSE LET h == EnsureFundersFirst(f, n - 1)
         IN  IF \E i \in DOMAIN h : Eq(h[i], Some(OPENAIRE_FUNDERS[n]))
             THEN h
             ELSE Append(h, Some(OPENAIRE_FUNDERS[n]))

\* the parts of a pick that the two loops of lines 219-248 can have applied:
\* the rows of some of the codes, and no openaire row before every
\* openaire_bulk row
LinkPickParts(g, pick) ==
    {[i \in {j \in DOMAIN pick : <<g[j].source, pick[j]>> \in done} |-> pick[i]] :
        done \in {d \in SUBSET {<<g[j].source, pick[j]>> : j \in DOMAIN pick} :
                    (\E x \in d : x[1] = "openaire")
                        => \A j \in DOMAIN pick :
                              g[j].source = "openaire_bulk"
                                  => <<g[j].source, pick[j]>> \in d}}

\* the funder table and the grant table _link_funders can leave
LinkPartial(g, f) ==
    {<<EnsureFundersFirst(f, n), g>> : n \in 0..Len(OPENAIRE_FUNDERS)}
    \cup UNION {UNION {{<<EnsureFunders(f, 1), LinkOpenaire(LinkCordis(g, m), m, part)>> :
                            part \in LinkPickParts(LinkCordis(g, m), pick)} :
                        pick \in LinkPicks(LinkCordis(g, m), m)} :
                 m \in FunderMaps(EnsureFunders(f, 1))}

\* the two UPDATEs of _flag_openaire_ec_duplicates: none, the first, or both
\* with the count failing
EcPartial(g) ==
    {g} \cup UNION {{SetDedupOf(g, [o \in {x \in DOMAIN pick : g[x].source = "openaire_bulk"}
                                        |-> pick[o]]),
                      SetDedupOf(g, pick)} : pick \in EcPicks(g)}

ApiPartial(g) == {g} \cup {SetDedupOf(g, pick) : pick \in ApiPicks(g)}

WithinPartial(g) == {g, FlagWithinSourceDuplicates(g)}

\* run_dedup catching the exception and returning the counts it has so far
AbortReturningStats ==
    /\ pc \notin {"idle", "report"}
    /\ history' = Append(history, [stats |-> stats, grant |-> grant])
    /\ runs' = runs + 1
    /\ pc' = "idle"
    /\ UNCHANGED <<grant, funder, stats, before, seq_grant>>

\* the statement of the phase at pc raises: the call ends without a result
Abort ==
    /\ pc \notin {"idle", "report"}
    /\ \/ /\ pc = "dates"
          /\ grant' \in DatesPartial(grant)
          /\ funder' = funder
       \/ /\ pc = "country"
          /\ grant' \in CountryPartial(grant)
          /\ funder' = funder
       \/ /\ pc = "currency"
          /\ grant' \in CurrencyPartial(grant)
          /\ funder' = funder
       \/ /\ pc = "link"
          /\ \E x \in LinkPartial(grant, funder) :
                /\ funder' = x[1]
                /\ grant' = x[2]
       \/ /\ pc = "enrich"
          /\ grant' = grant
          /\ funder' = funder
       \/ /\ pc = "flag_ec"
          /\ grant' \in EcPartial(grant)
          /\ funder' = funder
       \/ /\ pc = "flag_api"
          /\ grant' \in ApiPartial(grant)
          /\ funder' = funder
       \/ /\ pc = "flag_within"
          /\ grant' \in WithinPartial(grant)
          /\ funder' = funder
    /\ before' = grant
    /\ stats' = EmptyStats
    /\ pc' = "idle"
    /\ UNCHANGED <<runs, history, seq_grant>>

NextAbort ==
    \/ Next
    \/ Abort

\* a cordis row with inverted dates and gaps, its EC duplicate holding 'UK',
\* and an API row of the same project
AbortRows ==
    {Row("cordis_bulk", H2020_1, Some("1"), Some(20200101), Some(19000101), Null, Null),
     Row("openaire_bulk", OAIRE_EC_1, Some("1"), Null, Null, Some(200), Some("UK")),
     Row("openaire", OPENAIRE_RCN_1, Some("1"), Null, Null, Null, Null)}

InitAbort == InitWith(MaxRecords, AbortRows)

SpecAbort == InitAbort /\ [][NextAbort]_vars

----------------------------------------------------------------------------
(* Properties *)

\* a call of run_dedup has returned and no other is under way
AfterRun == pc = "idle" /\ runs > 0

\* the row that row d is flagged as a duplicate of
Target(g, d) == g[d].dedup_of[1]

\* the members of a sequence of characters between its first and second "_"
RECURSIVE UpToUnderscore(_)
UpToUnderscore(s) ==
    IF s = <<>> \/ Head(s) = "_" THEN <<>>
    ELSE <<Head(s)>> \o UpToUnderscore(Tail(s))

RECURSIVE AfterUnderscore(_)
AfterUnderscore(s) ==
    IF s = <<>> THEN <<>>
    ELSE IF Head(s) = "_" THEN Tail(s)
    ELSE AfterUnderscore(Tail(s))

FunderSegment(source_id) == UpToUnderscore(AfterUnderscore(source_id))

IsOpenaire(r) == r.source \in {"openaire_bulk", "openaire"}

\* C1: after run_dedup every row whose dedup_of is set references a row whose
\* dedup_of is NULL: no flagged row points at another flagged row.
C1_NoChaining ==
    AfterRun =>
        \A d \in Flagged(grant) :
            /\ Target(grant, d) \in Ids
            /\ IsNull(grant[Target(grant, d)].dedup_of)

\* C2: of two runs of run_dedup in a row, the second leaves as many flagged
\* rows, the same ec_duplicates_flagged count and the same canonical rows as
\* the first.
C2_Idempotent ==
    \A k \in 1..(Len(history) - 1) :
        /\ Cardinality(Flagged(history[k + 1].grant)) = Cardinality(Flagged(history[k].grant))
        /\ history[k + 1].stats.ec_duplicates_flagged = history[k].stats.ec_duplicates_flagged
        /\ grant_award_deduped(history[k + 1].grant) = grant_award_deduped(history[k].grant)

\* two runs have completed, rows are flagged, and some row is flagged as a
\* duplicate of another row in the second run than in the first
C2_Witness ==
    /\ Len(history) = 2
    /\ \E d \in Flagged(history[1].grant) :
          /\ d \in Flagged(history[2].grant)
          /\ Target(history[1].grant, d) # Target(history[2].grant, d)

\* C4 as stated: after run_dedup every natural-key group with more than one
\* member has exactly one member with dedup_of NULL, its lowest-id member.
C4_Original ==
    AfterRun =>
        \A d \in Ids :
            LET G == NaturalKeyGroup(grant, d)
            IN  Cardinality(G) > 1 =>
                    grant_award_deduped(grant) \cap G = {MinId(G)[1]}

\* C4 as amended: once the within-source phase has run, every member of a
\* natural-key group other than its lowest-id member is flagged (so at most
\* one member is canonical, and only the lowest-id one can be); a member the
\* phase flags points at the lowest-id member; the phase changes neither the
\* lowest-id member of a group nor a row whose natural key is unique.
C4_LowestIdCanonical ==
    (pc = "report" \/ AfterRun) =>
        \A d \in Ids :
            LET G == NaturalKeyGroup(grant, d)
                m == MinId(G)[1]
            IN  /\ (Cardinality(G) > 1 /\ d # m) => NotNull(grant[d].dedup_of)
                /\ (Cardinality(G) > 1 /\ d # m /\ IsNull(before[d].dedup_of))
                       => grant[d].dedup_of = Some(m)
                /\ (Cardinality(G) = 1 \/ d = m) => grant[d] = before[d]

\* the within-source phase has flagged a row of a group of several, left the
\* group's lowest-id row canonical, and left a row with a unique key alone
C4_Witness ==
    /\ pc = "report"
    /\ \E d \in Ids :
          /\ Cardinality(NaturalKeyGroup(grant, d)) > 1
          /\ IsNull(before[d].dedup_of)
          /\ NotNull(grant[d].dedup_of)
          /\ IsNull(grant[Target(grant, d)].dedup_of)
    /\ \E u \in Ids : NaturalKeyGroup(grant, u) = {u}

\* C5: a duplicate with several candidate canonical rows is flagged as a
\* duplicate of the candidate with the lowest id, in each of the three phases.
C5_LowestIdWins ==
    /\ pc = "flag_api" =>
          \A o \in Ids : EcFlaggable(before, o) =>
              grant[o].dedup_of = MinId(CordisMatches(before, o))
    /\ pc = "flag_within" =>
          \A a \in Ids : ApiFlaggable(before, a) =>
              grant[a].dedup_of = MinId(BulkMatches(before, a))
    /\ pc = "report" =>
          \A d \in Ids : WithinFlaggable(before, d) =>
              grant[d].dedup_of = MinId(NaturalKeyGroup(before, d))

\* C6: two OpenAIRE rows that share a project_id but carry different funder
\* codes in their source_id are never flagged as duplicates of one another.
C6_FunderScoped ==
    \A d \in Flagged(grant) :
        (/\ Target(grant, d) \in Ids
         /\ IsOpenaire(grant[d])
         /\ IsOpenaire(grant[Target(grant, d)])
         /\ Eq(grant[d].project_id, grant[Target(grant, d)].project_id))
        => FunderSegment(grant[d].source_id)
              = FunderSegment(grant[Target(grant, d)].source_id)

\* C3: _enrich_cordis_from_openaire leaves every non-NULL total_funding and
\* pi_country of a cordis_bulk row as it was, whatever the donor holds.
C3_NoOverwrite ==
    pc = "flag_ec" =>
        \A c \in Ids :
            before[c].source = "cordis_bulk" =>
                /\ NotNull(before[c].total_funding)
                      => grant[c].total_funding = before[c].total_funding
                /\ NotNull(before[c].pi_country)
                      => grant[c].pi_country = before[c].pi_country

\* enrichment has filled the pi_country of a cordis row whose total_funding
\* was set, from a donor that holds another total_funding
C3_Witness ==
    /\ pc = "flag_ec"
    /\ \E c \in Ids :
          /\ before[c].source = "cordis_bulk"
          /\ NotNull(before[c].total_funding)
          /\ IsNull(before[c].pi_country)
          /\ NotNull(grant[c].pi_country)
          /\ \A o \in Donors(before, c) :
                Ne(before[o].total_funding, before[c].total_funding)

\* _clean_date_anomalies has run at least once on the table
DatesCleaned == pc \notin {"idle", "dates"} \/ runs > 0

\* C7: after _clean_date_anomalies every row with both dates set has
\* start_date <= end_date.
C7_StartBeforeEnd ==
    DatesCleaned =>
        \A i \in Ids :
            (NotNull(grant[i].start_date) /\ NotNull(grant[i].end_date))
                => grant[i].start_date[1] <= grant[i].end_date[1]

\* an inverted pair of dates has been swapped and both dates survive
C7_Witness ==
    /\ pc = "country"
    /\ \E i \in Ids :
          /\ Inverted(before[i])
          /\ grant[i].start_date = before[i].end_date
          /\ grant[i].end_date = before[i].start_date

\* C8 as stated: after _clean_date_anomalies no start_date and no end_date has
\* a year before 1950 or after 2040.
C8_Original ==
    DatesCleaned =>
        \A i \in Ids :
            /\ NotNull(grant[i].start_date) =>
                  (Year(grant[i].start_date[1]) >= MIN_YEAR
                   /\ Year(grant[i].start_date[1]) <= MAX_YEAR)
            /\ NotNull(grant[i].end_date) =>
                  (Year(grant[i].end_date[1]) >= MIN_YEAR
                   /\ Year(grant[i].end_date[1]) <= MAX_YEAR)

\* C8 as amended: after _clean_date_anomalies no start_date and no end_date has
\* a year before 1950, and no end_date has a year after 2040 (a start_date
\* after 2040 is kept).
C8_PlausibleDates ==
    DatesCleaned =>
        \A i \in Ids :
            /\ NotNull(grant[i].start_date) =>
                  Year(grant[i].start_date[1]) >= MIN_YEAR
            /\ NotNull(grant[i].end_date) =>
                  (Year(grant[i].end_date[1]) >= MIN_YEAR
                   /\ Year(grant[i].end_date[1]) <= MAX_YEAR)

\* a row that held only an end_date, after 2040, has had it cleared
C8_Witness ==
    /\ pc = "country"
    /\ \E i \in Ids :
          /\ IsNull(before[i].start_date)
          /\ IsFutureEnd(before[i])
          /\ ~ IsSentinelEnd(before[i])
          /\ IsNull(grant[i].end_date)

\* C9: after _clean_date_anomalies no start_date and no end_date equals
\* 1900-01-01 or 9999-12-31.
C9_NoSentinel ==
    DatesCleaned =>
        \A i \in Ids :
            /\ ~ Eq(grant[i].start_date, Some(SENTINEL_START))
            /\ ~ Eq(grant[i].start_date, Some(SENTINEL_END))
            /\ ~ Eq(grant[i].end_date, Some(SENTINEL_START))
            /\ ~ Eq(grant[i].end_date, Some(SENTINEL_END))

\* p is a prefix of s, character by character
IsPrefix(p, s) == Len(p) <= Len(s) /\ SubSeq(s, 1, Len(p)) = p

OAIRE_EC_ == <<"o", "a", "i", "r", "e", "_", "E", "C", "_">>

OPENAIRE_EC_ == <<"o", "p", "e", "n", "a", "i", "r", "e", "_", "E", "C", "_">>

\* C10: _flag_openaire_ec_duplicates flags an openaire_bulk (openaire) row if
\* and only if its source_id starts with the literal oaire_EC_ (openaire_EC_),
\* its project_id is non-empty and a cordis_bulk row has that project_id; the
\* row it is flagged as a duplicate of is such a cordis_bulk row; every other
\* row is as it was.
C10_EcFlagging ==
    pc = "flag_api" =>
        \A o \in Ids :
            LET r == before[o]
                cordis == {c \in Ids : /\ before[c].source = "cordis_bulk"
                                       /\ before[c].project_id = r.project_id}
                due == /\ \/ /\ r.source = "openaire_bulk"
                             /\ IsPrefix(OAIRE_EC_, r.source_id)
                          \/ /\ r.source = "openaire"
                             /\ IsPrefix(OPENAIRE_EC_, r.source_id)
                       /\ r.project_id \notin {Null, Some("")}
                       /\ cordis # {}
            IN  /\ due <=> NotNull(grant[o].dedup_of)
                /\ due => Target(grant, o) \in cordis
                /\ ~ due => grant[o] = r
                /\ grant[o] = [r EXCEPT !.dedup_of = grant[o].dedup_of]

\* the EC phase has flagged a bulk row, and has left alone a row with a
\* near-miss prefix that shares its project_id with a cordis row
C10_Witness ==
    /\ pc = "flag_api"
    /\ \E o \in Flagged(grant) : grant[o].source = "openaire_bulk"
    /\ \E o \in Ids :
          /\ IsNull(grant[o].dedup_of)
          /\ grant[o].source_id \in {OAIRE_EC_1_DASHED, OPENAIRE_EC_1_DASHED}
          /\ CordisMatches(grant, o) # {}

C12_Enriched ==
    pc = "flag_ec" =>
        \A c \in Ids :
            before[c].source = "cordis_bulk" =>
                LET donors == {o \in Ids : /\ before[o].source = "openaire_bulk"
                                           /\ before[o].project_id = before[c].project_id}
                IN  /\ (before[c].project_id \notin {<<>>, <<"">>} /\ donors # {}) =>
                        /\ before[c].total_funding = <<>> =>
                              \E o \in donors : grant[c].total_funding = before[o].total_funding
                        /\ before[c].pi_country = <<>> =>
                              \E o \in donors : grant[c].pi_country = before[o].pi_country
                    /\ before[c].project_id \in {<<>>, <<"">>} => grant[c] = before[c]

\* a cordis row without funding and with a single donor has got the donor's
\* funding
C12_Witness ==
    /\ pc = "flag_ec"
    /\ \E c \in Ids :
          /\ before[c].source = "cordis_bulk"
          /\ IsNull(before[c].total_funding)
          /\ \E o \in Ids : /\ Donors(before, c) = {o}
                            /\ NotNull(before[o].total_funding)
                            /\ grant[c].total_funding = before[o].total_funding

\* C13: the count _enrich_cordis_from_openaire returns is the number of
\* cordis_bulk rows its UPDATE touches (the rows whose updated_at it sets),
\* also when a row has several donors or several cordis rows share a
\* project_id.
C13_EnrichCount ==
    pc = "flag_ec" =>
        /\ stats.enriched = Cardinality({c \in Ids : grant[c] # before[c]})
        /\ \A c \in Ids :
              grant[c] # before[c] =>
                  /\ before[c].source = "cordis_bulk"
                  /\ before[c].project_id \notin {<<>>, <<"">>}
                  /\ before[c].total_funding = <<>> \/ before[c].pi_country = <<>>
                  /\ \E o \in Ids : /\ before[o].source = "openaire_bulk"
                                    /\ before[o].project_id = before[c].project_id

\* the UPDATE has touched two cordis rows of one project_id, or one cordis row
\* with two donors
C13_Witness ==
    /\ pc = "flag_ec"
    /\ stats.enriched > 0
    /\ \E c \in Ids :
          /\ grant[c] # before[c]
          /\ \/ Cardinality(Donors(before, c)) > 1
             \/ \E c2 \in Ids \ {c} : /\ grant[c2] # before[c2]
                                       /\ before[c2].project_id = before[c].project_id

\* C14: in every state the view grant_award_deduped holds exactly the rows of
\* grant_award whose dedup_of is NULL, and after run_dedup its size is the
\* number of rows minus the number of flagged rows.
C14_ViewIsDerived ==
    /\ grant_award_deduped(grant) = {i \in Ids : grant[i].dedup_of = <<>>}
    /\ AfterRun =>
          Cardinality(grant_award_deduped(grant))
              = Cardinality(Ids) - Cardinality({i \in Ids : grant[i].dedup_of # <<>>})

\* run_dedup has returned and the view holds some rows of the table, not all
C14_Witness ==
    /\ AfterRun
    /\ grant_award_deduped(grant) # {}
    /\ grant_award_deduped(grant) # Ids

\* C15: no step of ingestion or of run_dedup removes a row of grant_award:
\* the set of ids only grows.
C15_NeverDeleted == [][DOMAIN grant \subseteq DOMAIN grant']_vars

\* C16: a second run of run_dedup leaves every row as the first run left it
\* in its dates, country, currency, funder reference, total_funding and
\* dedup_of.
C16_SameFinalState ==
    \A k \in 1..(Len(history) - 1) :
        \A i \in DOMAIN history[k].grant :
            LET one == history[k].grant[i]
                two == history[k + 1].grant[i]
            IN  /\ two.start_date = one.start_date
                /\ two.end_date = one.end_date
                /\ two.pi_country = one.pi_country
                /\ two.currency = one.currency
                /\ two.funder_id = one.funder_id
                /\ two.total_funding = one.total_funding
                /\ two.dedup_of = one.dedup_of

\* C17: _link_funders leaves every non-NULL funder reference as it was, and
\* the count it returns is the number of rows whose funder reference it
\* changed from NULL to a value.
C17_LinkKeepsFunder ==
    pc = "enrich" =>
        /\ \A i \in Ids :
              before[i].funder_id # <<>> => grant[i].funder_id = before[i].funder_id
        /\ stats.funders_linked
              = Cardinality({i \in Ids : before[i].funder_id = <<>> /\ grant[i].funder_id # <<>>})

\* one call of _link_funders has found a row linked by an earlier call and
\* has linked another row
C17_Witness ==
    /\ pc = "enrich"
    /\ \E i \in Ids : NotNull(before[i].funder_id)
    /\ \E j \in Ids : IsNull(before[j].funder_id) /\ NotNull(grant[j].funder_id)

\* C18: after _link_funders no cordis_bulk row has a NULL funder reference,
\* whatever the funder table held before the call.
C18_CordisLinked ==
    pc = "enrich" =>
        \A i \in Ids : grant[i].source = "cordis_bulk" => grant[i].funder_id # <<>>

\* _link_funders has returned at least once
Linked == runs > 0 \/ pc \in {"enrich", "flag_ec", "flag_api", "flag_within", "report"}

\* C19: once _link_funders has been called the funder table holds exactly
\* one row for every code of _OPENAIRE_FUNDERS; a call keeps the rows it
\* finds, inserts only codes that had no row, and inserts nothing when an
\* earlier call has returned.
C19_FunderIdempotent ==
    /\ [](Linked =>
            \A k \in DOMAIN OPENAIRE_FUNDERS :
                Cardinality({i \in DOMAIN funder : funder[i] = <<OPENAIRE_FUNDERS[k]>>}) = 1)
    /\ [][pc = "link" =>
            /\ \A i \in DOMAIN funder : funder'[i] = funder[i]
            /\ \A j \in (DOMAIN funder') \ (DOMAIN funder) :
                  \A i \in DOMAIN funder : funder[i] # funder'[j]
            /\ Linked => funder' = funder]_vars

\* a second call of _link_funders has returned, on a funder table that holds
\* the seeded funders and the OpenAIRE funders
C19_Witness ==
    /\ pc = "enrich"
    /\ runs > 0
    /\ Len(funder) = Len(SEED_FUNDERS) + Len(OPENAIRE_FUNDERS)

\* C20: after _normalize_country_codes every row that held 'UK' holds 'GB',
\* every row that held 'EL' holds 'GR', every other row is as it was, and the
\* count returned is the number of rows changed.
C20_CountryCodes ==
    pc = "currency" =>
        /\ \A i \in Ids :
              /\ before[i].pi_country = <<"UK">> => grant[i].pi_country = <<"GB">>
              /\ before[i].pi_country = <<"EL">> => grant[i].pi_country = <<"GR">>
              /\ before[i].pi_country \notin {<<"UK">>, <<"EL">>} => grant[i] = before[i]
              /\ grant[i] = [before[i] EXCEPT !.pi_country = grant[i].pi_country]
        /\ stats.countries_fixed = Cardinality({i \in Ids : grant[i] # before[i]})

\* a table with a 'UK' row, an 'EL' row and a row with another code has been
\* normalised
C20_Witness ==
    /\ pc = "currency"
    /\ \E i, j, k \in Ids :
          /\ before[i].pi_country = Some("UK")
          /\ before[j].pi_country = Some("EL")
          /\ before[k].pi_country = Some("DE")
          /\ grant[k].pi_country = Some("DE")
    /\ stats.countries_fixed = 2

\* 'oaire_' or 'openaire_', the start of the source_ids of a source
SourcePrefix(source) ==
    IF source = "openaire_bulk" THEN <<"o", "a", "i", "r", "e", "_">>
    ELSE <<"o", "p", "e", "n", "a", "i", "r", "e", "_">>

\* C21: _link_funders links an openaire_bulk (openaire) row to a funder only
\* if the row's source_id starts with the literal oaire_<code>_
\* (openaire_<code>_) for that funder's short name <code>; a row whose code
\* segment only resembles a known code stays unlinked.
C21_ExactPrefix ==
    pc = "enrich" =>
        \A i \in Ids :
            (/\ IsOpenaire(before[i])
             /\ IsNull(before[i].funder_id)
             /\ NotNull(grant[i].funder_id))
            => /\ grant[i].funder_id[1] \in DOMAIN funder
               /\ NotNull(funder[grant[i].funder_id[1]])
               /\ IsPrefix(SourcePrefix(before[i].source)
                              \o funder[grant[i].funder_id[1]][1] \o <<"_">>,
                           before[i].source_id)

\* the rows whose dedup_of the phase that ran last has set
NewlyFlagged == {i \in Ids : IsNull(before[i].dedup_of) /\ NotNull(grant[i].dedup_of)}

\* C22: each of ec_duplicates_flagged, api_duplicates_flagged and
\* within_source_flagged is the number of rows whose dedup_of its phase has
\* set, and the three add up to the number of flagged rows at the end of the
\* run.
C22_FlagCounts ==
    /\ pc = "flag_api" => stats.ec_duplicates_flagged = Cardinality(NewlyFlagged)
    /\ pc = "flag_within" => stats.api_duplicates_flagged = Cardinality(NewlyFlagged)
    /\ pc = "report" =>
          /\ stats.within_source_flagged = Cardinality(NewlyFlagged)
          /\ stats.ec_duplicates_flagged + stats.api_duplicates_flagged
                + stats.within_source_flagged = Cardinality(Flagged(grant))

\* the values of pc in the order run_dedup passes through them, and for each
\* the columns of grant_award and the entry of the stats that its step writes
PhaseOrder ==
    <<[pc |-> "idle",        columns |-> {"dedup_of"},              stat |-> "none"],
      [pc |-> "dates",       columns |-> {"start_date", "end_date"}, stat |-> "dates_fixed"],
      [pc |-> "country",     columns |-> {"pi_country"},            stat |-> "countries_fixed"],
      [pc |-> "currency",    columns |-> {"currency"},              stat |-> "currencies_fixed"],
      [pc |-> "link",        columns |-> {"funder_id"},             stat |-> "funders_linked"],
      [pc |-> "enrich",      columns |-> {"total_funding", "pi_country", "updated_at"},
                                                                    stat |-> "enriched"],
      [pc |-> "flag_ec",     columns |-> {"dedup_of"},              stat |-> "ec_duplicates_flagged"],
      [pc |-> "flag_api",    columns |-> {"dedup_of"},              stat |-> "api_duplicates_flagged"],
      [pc |-> "flag_within", columns |-> {"dedup_of"},              stat |-> "within_source_flagged"],
      [pc |-> "report",      columns |-> {},                        stat |-> "none"]>>

\* C23: run_dedup passes through clear, dates, country codes, currency codes,
\* funder links, enrichment, EC flags, API flags, within-source flags and the
\* report in this order and no other: every step starts at one position of
\* the order and ends at the next (the report ends where the clear starts),
\* writes only the columns and the count of the phase at that position, and a
\* result is returned by the report step only.
C23_PhaseOrder ==
    [][\E k \in DOMAIN PhaseOrder :
          /\ pc = PhaseOrder[k].pc
          /\ pc' = PhaseOrder[(k % Len(PhaseOrder)) + 1].pc
          /\ DOMAIN grant' = DOMAIN grant
          /\ \A i \in DOMAIN grant :
                \A c \in (DOMAIN grant[i]) \ PhaseOrder[k].columns :
                    grant'[i][c] = grant[i][c]
          /\ k > 1 => \A f \in (DOMAIN stats) \ {PhaseOrder[k].stat} : stats'[f] = stats[f]
          /\ IF pc = "report"
             THEN history' = Append(history, [stats |-> stats, grant |-> grant])
             ELSE history' = history]_vars

\* a run has reached its report after its date, country, link, enrichment and
\* flagging phases have each changed the table
C23_Witness ==
    /\ pc = "report"
    /\ stats.dates_fixed.swapped > 0
    /\ stats.countries_fixed > 0
    /\ stats.funders_linked > 0
    /\ stats.enriched > 0
    /\ stats.ec_duplicates_flagged > 0

C25_FlagsIndependent ==
    \A k \in 1..(Len(history) - 1) :
        (\A i \in DOMAIN history[k].grant :
            [history[k + 1].grant[i] EXCEPT !.dedup_of = <<>>]
                = [history[k].grant[i] EXCEPT !.dedup_of = <<>>])
        => \A i \in DOMAIN history[k].grant :
              history[k + 1].grant[i].dedup_of = history[k].grant[i].dedup_of

\* C26: when a statement of a phase fails, run_dedup ends there.  The step
\* that leaves a phase for the idle state returns no result (history and the
\* number of completed runs stay as they are), deletes no row, leaves every
\* column that the failing phase does not write as the completed phases left
\* it, leaves the flags cleared when the failure comes before the flagging
\* phases, and leaves the flags that earlier flagging phases set; no funder
\* row is removed; after it no phase runs but line 28 of a new call.
C26_AbortKeepsChanges ==
    [][/\ (pc \notin {"idle", "report"} /\ pc' = "idle") =>
            /\ history' = history
            /\ runs' = runs
            /\ DOMAIN grant' = DOMAIN grant
            /\ \A k \in DOMAIN PhaseOrder :
                  PhaseOrder[k].pc = pc =>
                      \A i \in DOMAIN grant :
                          \A c \in (DOMAIN grant[i]) \ PhaseOrder[k].columns :
                              grant'[i][c] = grant[i][c]
            /\ pc \in {"dates", "country", "currency", "link", "enrich"} =>
                  \A i \in DOMAIN grant : grant'[i].dedup_of = <<>>
            /\ \A i \in DOMAIN grant :
                  grant[i].dedup_of # <<>> => grant'[i].dedup_of = grant[i].dedup_of
            /\ \A i \in DOMAIN funder : i \in DOMAIN funder' /\ funder'[i] = funder[i]
       /\ pc = "idle" => pc' \in {"idle", "dates"}
       /\ pc' = "idle" => pc # "idle"]_vars

\* no run has returned, yet a cordis row holds the normalised country of its
\* donor and the donor, an EC duplicate of it, is not flagged: a call has
\* failed after its enrichment and before it flagged the donor
C26_Witness ==
    /\ pc = "idle"
    /\ runs = 0
    /\ history = <<>>
    /\ \E c, o \in Ids :
          /\ grant[c].source = "cordis_bulk"
          /\ grant[c].pi_country = Some("GB")
          /\ EcFlaggable(grant, o)
          /\ c \in CordisMatches(grant, o)
          /\ IsNull(grant[o].dedup_of)

\* the table a phase found, with the dedup_of that the phase has written on
\* the rows of S and on no other row
FlagsApplied(S) == [i \in DOMAIN before |-> IF i \in S THEN grant[i] ELSE before[i]]

\* C27: in each flagging phase a row is flagged, and has the candidate
\* targets, that the table at the start of the phase gives it, and so it is
\* when the flags are written row by row in any order: for every set S of
\* rows the phase flags, the rows outside S have on the table with the flags
\* of S written the same decision and the same candidates as on the table at
\* the start of the phase.
C27_SnapshotFlagging ==
    /\ pc = "flag_api" =>
          /\ NewlyFlagged = {o \in Ids : EcFlaggable(before, o)}
          /\ \A S \in SUBSET NewlyFlagged : \A o \in Ids \ S :
                /\ EcFlaggable(FlagsApplied(S), o) <=> EcFlaggable(before, o)
                /\ EcTargets(FlagsApplied(S), o) = EcTargets(before, o)
                /\ o \in NewlyFlagged => Target(grant, o) \in EcTargets(FlagsApplied(S), o)
    /\ pc = "flag_within" =>
          /\ NewlyFlagged = {a \in Ids : ApiFlaggable(before, a)}
          /\ \A S \in SUBSET NewlyFlagged : \A a \in Ids \ S :
                /\ ApiFlaggable(FlagsApplied(S), a) <=> ApiFlaggable(before, a)
                /\ ApiFlaggable(before, a) =>
                      ApiTargets(FlagsApplied(S), a) = ApiTargets(before, a)
                /\ a \in NewlyFlagged => Target(grant, a) \in ApiTargets(FlagsApplied(S), a)
    /\ pc = "report" =>
          /\ NewlyFlagged = {d \in Ids : WithinFlaggable(before, d)}
          /\ \A S \in SUBSET NewlyFlagged : \A d \in Ids \ S :
                /\ WithinFlaggable(FlagsApplied(S), d) <=> WithinFlaggable(before, d)
                /\ WithinTarget(FlagsApplied(S), d) = WithinTarget(before, d)
                /\ d \in NewlyFlagged => grant[d].dedup_of = WithinTarget(FlagsApplied(S), d)

\* the API phase has flagged two rows in one UPDATE, one of them with a
\* single candidate target
C27_Witness ==
    /\ pc = "flag_within"
    /\ Cardinality(NewlyFlagged) = 2
    /\ \E a \in NewlyFlagged : Cardinality(ApiTargets(before, a)) = 1

\* C28: a total_funding or pi_country that _enrich_cordis_from_openaire
\* writes on a cordis_bulk row is the value of an openaire_bulk row that has
\* the cordis row's project_id and a source_id starting with oaire_EC_; a
\* row of another funder donates nothing.
C28_DonorIsEc ==
    pc = "flag_ec" =>
        \A c \in Ids :
            before[c].source = "cordis_bulk" =>
                LET ec == {o \in Ids : /\ before[o].source = "openaire_bulk"
                                       /\ IsPrefix(OAIRE_EC_, before[o].source_id)
                                       /\ before[o].project_id = before[c].project_id}
                IN  /\ grant[c].total_funding # before[c].total_funding =>
                          \E o \in ec : grant[c].total_funding = before[o].total_funding
                    /\ grant[c].pi_country # before[c].pi_country =>
                          \E o \in ec : grant[c].pi_country = before[o].pi_country

\* the canonical priority of the module docstring: cordis_bulk, then
\* openaire_bulk, then openaire
Priority(source) ==
    IF source = "cordis_bulk" THEN 3
    ELSE IF source = "openaire_bulk" THEN 2
    ELSE 1

\* C29: at the end of run_dedup every flagged row d points at a row c of the
\* table, other than d, that either comes from a source of strictly higher
\* priority (cordis_bulk over openaire_bulk over openaire) or has the source
\* and source_id of d and a lower id; a flagged cordis_bulk row points at a
\* cordis_bulk row with its source_id.
C29_TargetOutranks ==
    \A k \in DOMAIN history :
        LET g == history[k].grant
        IN  \A d \in DOMAIN g :
                g[d].dedup_of # <<>> =>
                    LET c == g[d].dedup_of[1]
                    IN  /\ c \in DOMAIN g
                        /\ c # d
                        /\ \/ Priority(g[c].source) > Priority(g[d].source)
                           \/ /\ g[c].source = g[d].source
                              /\ g[c].source_id = g[d].source_id
                              /\ c < d
                        /\ g[d].source = "cordis_bulk" =>
                              /\ g[c].source = "cordis_bulk"
                              /\ g[c].source_id = g[d].source_id

\* a run has returned with one row flagged across sources and another row
\* flagged within its source
C29_Witness ==
    /\ Len(history) > 0
    /\ \E d, e \in Flagged(history[1].grant) :
          LET g == history[1].grant
          IN  /\ Priority(g[Target(g, d)].source) > Priority(g[d].source)
              /\ g[Target(g, e)].source = g[e].source

\* C30: the table a completed run_dedup returns with has no row whose
\* pi_country is 'UK' or 'EL', the cordis_bulk rows that enrichment has
\* filled in that run included.
C30_NoOldCountryCodes ==
    \A k \in DOMAIN history :
        \A i \in DOMAIN history[k].grant :
            /\ history[k].grant[i].pi_country # <<"UK">>
            /\ history[k].grant[i].pi_country # <<"EL">>

\* the first run has returned; it has filled the pi_country of a cordis row
\* from a donor that held 'UK' when the run began, and the row holds 'GB'
C30_Witness ==
    /\ Len(history) = 1
    /\ history[1].stats.enriched > 0
    /\ history[1].stats.countries_fixed > 0
    /\ \E c \in DOMAIN history[1].grant :
          LET g == history[1].grant
          IN  /\ g[c].source = "cordis_bulk"
              /\ g[c].updated_at = 1
              /\ g[c].pi_country = Some("GB")
              /\ \A o \in Donors(g, c) : g[o].pi_country = Some("GB")

====
